---- MODULE Spec2Model ----
(***************************************************************************)
(* A model of the two HTTP gateways of fluent_cli: frontend.py (the        *)
(* "legacy" gateway) and frontend_secure.py (the "secure" gateway).        *)
(* Both accept a JSON job request, stage inline payloads as temporary      *)
(* files, build an argument vector for the external `fluent` program and   *)
(* run it.  The secure gateway adds a per-client rate limiter.             *)
(***************************************************************************)
EXTENDS Integers, Sequences, FiniteSets, TLC

(***************************************************************************)
(* Python strings.  A string is kept run-length encoded: a sequence of     *)
(* runs <<c, n>> (n >= 1 copies of character c) in which neighbouring runs *)
(* carry different characters.  Lengths of several thousand characters     *)
(* (the caps of the gateways) stay small values this way.                  *)
(***************************************************************************)
\* The runs of s joined to the normalized runs acc before them.
RECURSIVE NormAcc(_, _)
NormAcc(s, acc) ==
    IF Len(s) = 0 THEN acc
    ELSE IF s[1][2] = 0 THEN NormAcc(Tail(s), acc)
    ELSE IF Len(acc) > 0 /\ acc[Len(acc)][1] = s[1][1]
    THEN NormAcc(Tail(s), [acc EXCEPT ![Len(acc)] = <<@[1], @[2] + s[1][2]>>])
    ELSE NormAcc(Tail(s), Append(acc, s[1]))

\* s is bound to its value before the runs are joined, so an argument that is
\* itself a concatenation is evaluated once.
Norm(s) == CHOOSE r \in {NormAcc(v, << >>) : v \in {s}} : TRUE

Rep(c, n) == IF n = 0 THEN << >> ELSE << <<c, n>> >>

Cat(a, b) == Norm(a \o b)

\* The string spelled by a sequence of characters.
Lit(cs) == Norm([i \in 1..Len(cs) |-> <<cs[i], 1>>])

\* len(s)
RECURSIVE StrLen(_)
StrLen(s) == IF Len(s) = 0 THEN 0 ELSE s[1][2] + StrLen(Tail(s))

\* The first k characters of the runs s.
RECURSIVE TakeRuns(_, _)
TakeRuns(s, k) ==
    IF Len(s) = 0 \/ k <= 0 THEN << >>
    ELSE IF s[1][2] >= k THEN << <<s[1][1], k>> >>
    ELSE << s[1] >> \o TakeRuns(Tail(s), k - s[1][2])

\* s[:k], s bound to its value first
Take(s, k) == CHOOSE r \in {TakeRuns(v, k) : v \in {s}} : TRUE

\* any(c in s for c in cs)
HasAny(s, cs) == \E i \in 1..Len(s) : s[i][1] \in cs

\* The number of characters of s that are in cs.
RECURSIVE CountIn(_, _)
CountIn(s, cs) ==
    IF Len(s) = 0 THEN 0
    ELSE (IF s[1][1] \in cs THEN s[1][2] ELSE 0) + CountIn(Tail(s), cs)

\* re.sub('[cs]', '', s)
Strip(s, cs) == Norm(SelectSeq(s, LAMBDA r : r[1] \notin cs))

\* p in s, for a non-empty literal p
Contains(s, p) ==
    LET k == Len(p)
    IN  \E i \in 1..(Len(s) - k + 1) :
          \A j \in 1..k :
             /\ s[i + j - 1][1] = p[j][1]
             /\ IF j = 1 \/ j = k THEN s[i + j - 1][2] >= p[j][2]
                                  ELSE s[i + j - 1][2] = p[j][2]

StartsWith(s, c) == Len(s) > 0 /\ s[1][1] = c

UpperOf ==
    [a |-> "A", c |-> "C", d |-> "D", e |-> "E", i |-> "I", j |-> "J",
     p |-> "P", r |-> "R", s |-> "S", t |-> "T", v |-> "V", x |-> "X", b |-> "B"]

LowerChar(c) ==
    IF \E l \in DOMAIN UpperOf : UpperOf[l] = c
    THEN CHOOSE l \in DOMAIN UpperOf : UpperOf[l] = c
    ELSE c

\* s.lower(), for the letters the patterns of the gateways use
Lower(s) == Norm([i \in 1..Len(s) |-> <<LowerChar(s[i][1]), s[i][2]>>])

\* re.search(p, s, re.IGNORECASE) for a literal p
ContainsI(s, p) == Contains(Lower(s), p)

Whitespace == {" ", "\t", "\n", "\r"}

\* s.split(): the maximal runs of non-whitespace characters, in order
RECURSIVE SplitAcc(_, _, _)
SplitAcc(s, cur, acc) ==
    IF Len(s) = 0 THEN (IF Len(cur) = 0 THEN acc ELSE Append(acc, cur))
    ELSE IF s[1][1] \in Whitespace
         THEN SplitAcc(Tail(s), << >>, IF Len(cur) = 0 THEN acc ELSE Append(acc, cur))
         ELSE SplitAcc(Tail(s), Append(cur, s[1]), acc)

Split(s) == SplitAcc(s, << >>, << >>)

\* len(' '.join(xs))
RECURSIVE SumLen(_)
SumLen(xs) == IF Len(xs) = 0 THEN 0 ELSE StrLen(xs[1]) + SumLen(Tail(xs))

JoinLen(xs) == IF Len(xs) = 0 THEN 0 ELSE SumLen(xs) + (Len(xs) - 1)

\* seq[:k] for a list
Prefix(xs, k) == IF Len(xs) <= k THEN xs ELSE SubSeq(xs, 1, k)


(***************************************************************************)
(* Python values as they arrive in the JSON body.  A value carries its     *)
(* type t, its text s (the string itself for a str, str(value) otherwise)  *)
(* and, for a list or a dict, its number of elements n.                    *)
(***************************************************************************)
Str(x) == [t |-> "str", s |-> x, n |-> 0]
Absent == [t |-> "absent", s |-> << >>, n |-> 0]
PyNone == [t |-> "none", s |-> Lit(<<"N", "o", "n", "e">>), n |-> 0]
PyTrue == [t |-> "bool", s |-> Lit(<<"T", "r", "u", "e">>), n |-> 0]
PyFalse == [t |-> "bool", s |-> Lit(<<"F", "a", "l", "s", "e">>), n |-> 0]
PyInt(digits) == [t |-> "int", s |-> digits, n |-> 0]
PyList(text, count) == [t |-> "list", s |-> text, n |-> count]

IsStr(v) == v.t = "str"

\* bool(v): the truth value Python gives v
Truthy(v) ==
    CASE v.t = "str" -> Len(v.s) > 0
      [] v.t = "bool" -> v = PyTrue
      [] v.t = "int" -> v.s # Lit(<<"0">>)
      [] v.t = "list" -> v.n > 0
      [] OTHER -> FALSE

\* len(repr(v)) for a str: the quotes, and a backslash before each character
\* repr escapes (single quotes only when the string holds both kinds)
ReprLen(v) ==
    IF IsStr(v)
    THEN 2 + StrLen(v.s) + CountIn(v.s, {"\\", "\n", "\r", "\t"})
           + (IF HasAny(v.s, {"'"}) /\ HasAny(v.s, {"\""}) THEN CountIn(v.s, {"'"}) ELSE 0)
    ELSE StrLen(v.s)

Fields ==
    {"engine", "request", "config", "pipelineFile", "override",
     "additionalContextFile", "upsert", "input", "metadata", "uploadImageFile",
     "downloadMedia", "parseCode", "executeOutput", "markdown", "generateCypher",
     "pipelineInput", "jsonOutput", "runId", "forceFresh"}

\* len(key) of each key of the request
KeyLen ==
    [engine |-> 6, request |-> 7, config |-> 6, pipelineFile |-> 12, override |-> 8,
     additionalContextFile |-> 21, upsert |-> 6, input |-> 5, metadata |-> 8,
     uploadImageFile |-> 15, downloadMedia |-> 13, parseCode |-> 9,
     executeOutput |-> 13, markdown |-> 8, generateCypher |-> 14,
     pipelineInput |-> 13, jsonOutput |-> 10, runId |-> 5, forceFresh |-> 10]

(***************************************************************************)
(* The JSON body: request.json is None (json = "null") or a mapping f from *)
(* the keys to their values, Absent marking a key the mapping lacks.       *)
(***************************************************************************)
NoFields == [k \in Fields |-> Absent]
NullBody == [json |-> "null", f |-> NoFields]
\* A JSON body that is a non-zero number: truthy, and no container.
NumberBody == [json |-> "number", f |-> NoFields]
Body(fs) == [json |-> "object", f |-> fs]

Keys(d) == {k \in Fields : d.f[k] # Absent}

\* data.get(k)
Get(d, k) == IF d.f[k] = Absent THEN PyNone ELSE d.f[k]

\* not data
IsEmptyBody(d) == d.json = "null" \/ (d.json = "object" /\ Keys(d) = {})

\* The summed length of the "'key': repr" items of the keys ks of d.
RECURSIVE ItemsLen(_, _)
ItemsLen(d, ks) ==
    IF ks = {} THEN 0
    ELSE LET k == CHOOSE x \in ks : TRUE
         IN  KeyLen[k] + 4 + ReprLen(d.f[k]) + ItemsLen(d, ks \ {k})

\* len(str(data)): for a mapping "{" + the items joined by ", " + "}", for the
\* number one digit.
DataStrLen(d) ==
    LET ks == Keys(d)
    IN  IF d.json = "number" THEN 1
        ELSE IF ks = {} THEN 2
        ELSE 2 + ItemsLen(d, ks) + 2 * (Cardinality(ks) - 1)


(***************************************************************************)
(* Configuration of the secure gateway.                                    *)
(***************************************************************************)
MAX_REQUEST_SIZE == 10485760
MAX_REQUESTS_PER_MINUTE == 30
COMMAND_TIMEOUT == 60
RateWindow == 60

ALLOWED_ENGINES ==
    {Lit(<<"o", "p", "e", "n", "a", "i">>),
     Lit(<<"a", "n", "t", "h", "r", "o", "p", "i", "c">>),
     Lit(<<"g", "o", "o", "g", "l", "e">>),
     Lit(<<"c", "o", "h", "e", "r", "e">>),
     Lit(<<"m", "i", "s", "t", "r", "a", "l">>)}

ExtJson == Lit(<<".", "j", "s", "o", "n">>)
ExtYaml == Lit(<<".", "y", "a", "m", "l">>)

ALLOWED_EXTENSIONS ==
    {ExtJson, ExtYaml, Lit(<<".", "y", "m", "l">>), Lit(<<".", "t", "x", "t">>)}

(***************************************************************************)
(* Configuration of the legacy gateway, which writes the same values as    *)
(* literals inside its functions.                                          *)
(***************************************************************************)
LegacyMaxContent == 10485760
LegacyMaxCommand == 2000
LegacyTimeout == 30
LegacyMaxOutput == 1000000

\* An exception, or none.
NoExc == [exc |-> "none", msg |-> "none"]
Raise(e, m) == [exc |-> e, msg |-> m]

(***************************************************************************)
(* validate_input of the secure gateway.                                   *)
(***************************************************************************)
\* The backquote character (a string of the module cannot spell it).
Backquote == "backquote"

ShellMeta == {";", "&", "|", Backquote, "$", "(", ")"}

\* re.search(r'exec\s*\(', s, re.IGNORECASE)
MatchesExecCall(s) ==
    LET l == Lower(s)
    IN  \E i \in 1..Len(l) : \E j \in (i + 4)..Len(l) :
          /\ l[i][1] = "e"
          /\ l[i + 1] = <<"x", 1>>
          /\ l[i + 2] = <<"e", 1>>
          /\ l[i + 3] = <<"c", 1>>
          /\ l[j][1] = "("
          /\ \A m \in (i + 4)..(j - 1) : l[m][1] \in Whitespace

\* Some pattern of dangerous_patterns matches s.
MatchesDangerous(s) ==
    \/ HasAny(s, ShellMeta)
    \/ Contains(s, Lit(<<".", ".", "/">>))
    \/ ContainsI(s, Lit(<<"<", "s", "c", "r", "i", "p", "t">>))
    \/ MatchesExecCall(s)

validate_input(d) ==
    IF IsEmptyBody(d) THEN Raise("ValueError", "No JSON data provided")
    ELSE IF DataStrLen(d) > MAX_REQUEST_SIZE THEN Raise("ValueError", "Request too large")
    ELSE IF d.json = "number" THEN Raise("TypeError", "argument of type 'int' is not iterable")
    ELSE IF "engine" \notin Keys(d) THEN Raise("ValueError", "Engine is required")
    ELSE IF ~(IsStr(d.f["engine"]) /\ d.f["engine"].s \in ALLOWED_ENGINES)
         THEN Raise("ValueError", "Invalid engine")
    ELSE IF \E k \in Keys(d) : IsStr(d.f[k]) /\ MatchesDangerous(d.f[k].s)
         THEN Raise("ValueError", "Invalid characters")
    ELSE NoExc

(***************************************************************************)
(* The checks the legacy execute_fluent makes before staging.              *)
(***************************************************************************)
LegacyValidate(d) ==
    IF IsEmptyBody(d) THEN "No JSON data provided"
    ELSE IF d.json = "number" THEN "TypeError"
    ELSE IF "engine" \notin Keys(d) THEN "Engine is required"
    ELSE IF ~(IsStr(d.f["engine"]) /\ d.f["engine"].s \in ALLOWED_ENGINES)
         THEN "Invalid engine"
    ELSE "ok"

(***************************************************************************)
(* create_temp_file: the checks made before the file is created.  The      *)
(* result is "none" (return None), "create" (go on to create the file) or  *)
(* the exception raised.                                                   *)
(***************************************************************************)
ContentDangerous(s) ==
    \/ ContainsI(s, Lit(<<"<", "s", "c", "r", "i", "p", "t">>))
    \/ ContainsI(s, Lit(<<"j", "a", "v", "a", "s", "c", "r", "i", "p", "t", ":">>))
    \/ ContainsI(s, Lit(<<"d", "a", "t", "a", ":">>))
    \/ ContainsI(s, Lit(<<"v", "b", "s", "c", "r", "i", "p", "t", ":">>))

\* len(content)
PyLen(v) == IF IsStr(v) THEN StrLen(v.s) ELSE v.n

HasLen(v) == v.t \in {"str", "list"}

SecureStageCheck(content, extension) ==
    IF ~Truthy(content) THEN [act |-> "none", e |-> NoExc]
    ELSE IF ~HasLen(content) THEN [act |-> "raise", e |-> Raise("TypeError", "len")]
    ELSE IF PyLen(content) > MAX_REQUEST_SIZE
         THEN [act |-> "raise", e |-> Raise("ValueError", "Content too large")]
    ELSE IF extension \notin ALLOWED_EXTENSIONS
         THEN [act |-> "raise", e |-> Raise("ValueError", "Invalid extension")]
    ELSE IF ~IsStr(content) THEN [act |-> "raise", e |-> Raise("TypeError", "re.search")]
    ELSE IF ContentDangerous(content.s)
         THEN [act |-> "raise", e |-> Raise("ValueError", "Content contains dangerous patterns")]
    ELSE [act |-> "create", e |-> NoExc]

LegacyStageCheck(content, extension) ==
    IF ~Truthy(content) THEN [act |-> "none", e |-> NoExc]
    ELSE IF ~HasLen(content) THEN [act |-> "raise", e |-> Raise("TypeError", "len")]
    ELSE IF PyLen(content) > LegacyMaxContent
         THEN [act |-> "raise", e |-> Raise("ValueError", "Content too large")]
    ELSE IF extension \notin ALLOWED_EXTENSIONS
         THEN [act |-> "raise", e |-> Raise("ValueError", "Invalid extension")]
    ELSE [act |-> "create", e |-> NoExc]

StageCheck(g, content, extension) ==
    IF g = "secure" THEN SecureStageCheck(content, extension)
    ELSE LegacyStageCheck(content, extension)

\* The name tempfile gives the n-th file: directory and prefix, eight random
\* characters of [a-z0-9_], the suffix.
NameChars == <<"a", "b", "c", "d", "e", "f", "g", "h", "k", "m">>

TempName(g, n, extension) ==
    Cat(Cat(IF g = "secure"
            THEN Lit(<<"/", "t", "m", "p", "/", "f", "l", "u", "e", "n", "t", "_",
                       "s", "e", "c", "u", "r", "e", "_">>)
            ELSE Lit(<<"/", "t", "m", "p", "/", "f", "l", "u", "e", "n", "t", "_",
                       "t", "e", "m", "p", "_">>),
            Rep(NameChars[n], 8)),
        extension)


(***************************************************************************)
(* The command builders.  A command is a sequence of Python values; the    *)
(* result is the command built, or the exception that ended the building.  *)
(***************************************************************************)
Opt(c, xs) == IF c THEN xs ELSE << >>

\* str(v)[:k]
StrCut(v, k) == Str(Take(v.s, k))

Flag(cs) == Str(Lit(cs))

\* data.get('override', '')
GetOverride(d) == IF d.f["override"] = Absent THEN Str(<< >>) ELSE d.f["override"]

\* The -o pairs of the secure builder: tokens shorter than 100 characters.
RECURSIVE SecureOverrideArgs(_)
SecureOverrideArgs(tokens) ==
    IF Len(tokens) = 0 THEN << >>
    ELSE Opt(StrLen(tokens[1]) < 100, <<Flag(<<"-", "o">>), Str(tokens[1])>>)
         \o SecureOverrideArgs(Tail(tokens))

SecureBuild(d, config_file, pipeline_file) ==
    LET overrides == GetOverride(d)
        head ==
            <<Flag(<<"f", "l", "u", "e", "n", "t">>), d.f["engine"]>>
            \o Opt(Truthy(Get(d, "request")), <<StrCut(Get(d, "request"), 5000)>>)
            \o Opt(Truthy(config_file), <<Flag(<<"-", "c">>), config_file>>)
        rest ==
            Opt(Truthy(Get(d, "additionalContextFile")),
                <<Flag(<<"-", "a">>), StrCut(Get(d, "additionalContextFile"), 500)>>)
            \o Opt(Truthy(Get(d, "upsert")), <<Flag(<<"-", "-", "u", "p", "s", "e", "r", "t">>)>>)
            \o Opt(Truthy(Get(d, "input")),
                   <<Flag(<<"-", "i">>), StrCut(Get(d, "input"), 1000)>>)
            \o Opt(Truthy(Get(d, "metadata")),
                   <<Flag(<<"-", "t">>), StrCut(Get(d, "metadata"), 500)>>)
            \o Opt(Truthy(pipeline_file),
                   <<Flag(<<"p", "i", "p", "e", "l", "i", "n", "e">>),
                     Flag(<<"-", "-", "f", "i", "l", "e">>), pipeline_file>>
                   \o Opt(Truthy(Get(d, "pipelineInput")),
                          <<Flag(<<"-", "-", "i", "n", "p", "u", "t">>),
                            StrCut(Get(d, "pipelineInput"), 1000)>>)
                   \o Opt(Truthy(Get(d, "jsonOutput")),
                          <<Flag(<<"-", "-", "j", "s", "o", "n", "-", "o", "u", "t", "p", "u", "t">>)>>)
                   \o Opt(Truthy(Get(d, "runId")),
                          <<Flag(<<"-", "-", "r", "u", "n", "-", "i", "d">>),
                            StrCut(Get(d, "runId"), 100)>>)
                   \o Opt(Truthy(Get(d, "forceFresh")),
                          <<Flag(<<"-", "-", "f", "o", "r", "c", "e", "-", "f", "r", "e", "s", "h">>)>>))
    IN  IF Truthy(overrides) /\ ~IsStr(overrides)
        THEN [e |-> Raise("AttributeError", "split"), cmd |-> head]
        ELSE [e |-> NoExc,
              cmd |-> head
                      \o Opt(Truthy(overrides),
                             SecureOverrideArgs(Prefix(Split(overrides.s), 10)))
                      \o rest]

\* The -o pairs of the legacy builder: one per token.
RECURSIVE LegacyOverrideArgs(_)
LegacyOverrideArgs(tokens) ==
    IF Len(tokens) = 0 THEN << >>
    ELSE <<Flag(<<"-", "o">>), Str(tokens[1])>> \o LegacyOverrideArgs(Tail(tokens))

LegacyBuild(d, config_file, pipeline_file) ==
    LET overrides == GetOverride(d)
        head ==
            <<Flag(<<"f", "l", "u", "e", "n", "t">>), d.f["engine"]>>
            \o Opt(Truthy(Get(d, "request")), <<Get(d, "request")>>)
            \o Opt(Truthy(config_file), <<Flag(<<"-", "c">>), config_file>>)
        rest ==
            Opt(Truthy(Get(d, "additionalContextFile")),
                <<Flag(<<"-", "a">>), Get(d, "additionalContextFile")>>)
            \o Opt(Truthy(Get(d, "upsert")), <<Flag(<<"-", "-", "u", "p", "s", "e", "r", "t">>)>>)
            \o Opt(Truthy(Get(d, "input")), <<Flag(<<"-", "i">>), Get(d, "input")>>)
            \o Opt(Truthy(Get(d, "metadata")), <<Flag(<<"-", "t">>), Get(d, "metadata")>>)
            \o Opt(Truthy(Get(d, "uploadImageFile")),
                   <<Flag(<<"-", "l">>), Get(d, "uploadImageFile")>>)
            \o Opt(Truthy(Get(d, "downloadMedia")),
                   <<Flag(<<"-", "d">>), Get(d, "downloadMedia")>>)
            \o Opt(Truthy(Get(d, "parseCode")), <<Flag(<<"-", "p">>)>>)
            \o Opt(Truthy(Get(d, "executeOutput")), <<Flag(<<"-", "x">>)>>)
            \o Opt(Truthy(Get(d, "markdown")), <<Flag(<<"-", "m">>)>>)
            \o Opt(Truthy(Get(d, "generateCypher")),
                   <<Flag(<<"-", "-", "g", "e", "n", "e", "r", "a", "t", "e", "-",
                            "c", "y", "p", "h", "e", "r">>),
                     Get(d, "generateCypher")>>)
            \o Opt(Truthy(pipeline_file),
                   <<Flag(<<"p", "i", "p", "e", "l", "i", "n", "e">>),
                     Flag(<<"-", "-", "f", "i", "l", "e">>), pipeline_file>>
                   \o Opt(Truthy(Get(d, "pipelineInput")),
                          <<Flag(<<"-", "-", "i", "n", "p", "u", "t">>), Get(d, "pipelineInput")>>)
                   \o Opt(Truthy(Get(d, "jsonOutput")),
                          <<Flag(<<"-", "-", "j", "s", "o", "n", "-", "o", "u", "t", "p", "u", "t">>)>>)
                   \o Opt(Truthy(Get(d, "runId")),
                          <<Flag(<<"-", "-", "r", "u", "n", "-", "i", "d">>), Get(d, "runId")>>)
                   \o Opt(Truthy(Get(d, "forceFresh")),
                          <<Flag(<<"-", "-", "f", "o", "r", "c", "e", "-", "f", "r", "e", "s", "h">>)>>))
    IN  IF ~IsStr(overrides)
        THEN [e |-> Raise("AttributeError", "split"), cmd |-> head]
        ELSE [e |-> NoExc,
              cmd |-> head \o LegacyOverrideArgs(Split(overrides.s)) \o rest]

(***************************************************************************)
(* The argument scan of the legacy gateway, made on the built command.     *)
(* The result is "ok", the error of the 400 response, or "AttributeError"  *)
(* (arg.startswith on a value that is no str).                             *)
(***************************************************************************)
dangerous_chars ==
    {";", "&", "|", Backquote, "$", "(", ")", "<", ">", "\"", "'", "\\", "\n", "\r"}

\* A scan that lets an argument beginning with "/" through.
RECURSIVE LegacyScanArgs_AllowsPaths(_)
LegacyScanArgs_AllowsPaths(cmd) ==
    IF Len(cmd) = 0 THEN "ok"
    ELSE LET arg == cmd[1]
         IN  IF HasAny(arg.s, dangerous_chars) THEN "Invalid characters in command arguments"
             ELSE IF Contains(arg.s, Lit(<<".", ".">>)) THEN "Invalid path in arguments"
             ELSE IF ~IsStr(arg) THEN "AttributeError"
             ELSE LegacyScanArgs_AllowsPaths(Tail(cmd))

RECURSIVE LegacyScanArgs(_)
LegacyScanArgs(cmd) ==
    IF Len(cmd) = 0 THEN "ok"
    ELSE LET arg == cmd[1]
         IN  IF HasAny(arg.s, dangerous_chars) THEN "Invalid characters in command arguments"
             ELSE IF Contains(arg.s, Lit(<<".", ".">>)) THEN "Invalid path in arguments"
             ELSE IF ~IsStr(arg) THEN "AttributeError"
             ELSE IF StartsWith(arg.s, "/") THEN "Invalid path in arguments"
             ELSE LegacyScanArgs(Tail(cmd))

\* len(' '.join(fluent_command))
CommandLen(cmd) == JoinLen([i \in 1..Len(cmd) |-> cmd[i].s])

LegacyScan(cmd) ==
    LET r == LegacyScanArgs(cmd)
    IN  IF r # "ok" THEN r
        ELSE IF CommandLen(cmd) > LegacyMaxCommand THEN "Command too long"
        ELSE "ok"

(***************************************************************************)
(* sanitize_command_args of the secure gateway.                            *)
(***************************************************************************)
\* An executor that hands the arguments on as they are.
sanitize_command_args_Keeps(args) == args

sanitize_command_args(args) ==
    [i \in 1..Len(args) |->
        IF IsStr(args[i]) THEN Str(Take(Strip(args[i].s, ShellMeta), 1000))
        ELSE Str(Take(args[i].s, 1000))]


(***************************************************************************)
(* The rate limiter: the two computations of decorated_function.           *)
(***************************************************************************)
\* The timestamps of w that stay at time t.
PruneWindow(w, t) == SelectSeq(w, LAMBDA req_time : t - req_time < RateWindow)

\* A check that lets one request more through than the ceiling.
OverLimit_Above(w) == Len(w) > MAX_REQUESTS_PER_MINUTE

\* A check that turns no request away.
OverLimit_Never(w) == FALSE

\* Whether a client with the pruned window w is turned away.
OverLimit(w) == Len(w) >= MAX_REQUESTS_PER_MINUTE

(***************************************************************************)
(* Bounds of the model.                                                    *)
(***************************************************************************)
MaxFiles == 2
MaxRequests == 2
TickStep == 30
MaxTicks == 3

Clients == {"c1", "c2"}

\* The request threads of the threaded server that run at the same time.
Threads == {"t1", "t2"}

(***************************************************************************)
(* The state.                                                              *)
(***************************************************************************)
VARIABLES
    gw,              \* the gateway this process runs: "legacy" or "secure"
    now,             \* time.time()
    request_counts,  \* client -> its list of timestamps
    recent,          \* client -> the times of its admissions of the last 60 s
    rate_limit_lock, \* "free", or the client or thread whose request holds the lock
    th,              \* thread -> where its run of decorated_function stands
    admitted,        \* client -> the times recorded for its admissions by the
                     \* threads th, after the entries the run starts with
    temp_files,      \* the list _temp_files
    disk,            \* the paths that exist in the staging directory
    created,         \* how many names tempfile has handed out
    requests,        \* how many requests have been received
    pc,              \* where the request in flight stands
    client,          \* its client identity
    data,            \* its JSON body
    config_file,     \* its local config_file
    pipeline_file,   \* its local pipeline_file
    fluent_command,  \* its local fluent_command
    proc,            \* the arguments handed to the subprocess call
    resp,            \* its response
    hist,            \* what its handling has done so far
    st,              \* the create_temp_file call in progress
    sw               \* the cleanup_temp_files call in progress

rateVars == <<request_counts, recent, rate_limit_lock, th, admitted>>
fsVars == <<temp_files, disk, created>>
reqVars == <<client, data, config_file, pipeline_file, fluent_command, proc, resp, hist>>
vars ==
    <<gw, now, request_counts, recent, rate_limit_lock, th, admitted, temp_files, disk, created, requests, pc, client,
      data, config_file, pipeline_file, fluent_command, proc, resp, hist, st, sw>>

NoResp == [status |-> 0, error |-> "none", output |-> 0]
Error(code, msg) == [status |-> code, error |-> msg, output |-> 0]
Output(n) == [status |-> 200, error |-> "none", output |-> n]

ThIdle == [pc |-> "idle", client |-> "none", current_time |-> 0]

StIdle == [pc |-> "idle", content |-> PyNone, extension |-> << >>, path |-> << >>,
           caller |-> "none", disk0 |-> {}, files0 |-> << >>, result |-> "none"]

\* The sweep in progress: its place (pc, idx) and, for the record, the paths
\* tracked when it started, those it unlinked, those whose unlink raised,
\* whether no create_temp_file call was running when it started (quiet), the
\* count of files created by then, and whether it started after another
\* sweep with no file staged in between (again).  Between sweeps the record
\* keeps what the next sweep needs to tell that.
SwIdle == [pc |-> "idle", idx |-> 0, tracked |-> {}, unlinked |-> {}, failed |-> {},
           quiet |-> TRUE, created0 |-> 0, again |-> FALSE]

\* What `except ValueError` / `except Exception` of execute_fluent answer.
ExceptResponse(e) ==
    IF e.exc = "ValueError" THEN Error(400, e.msg) ELSE Error(500, "Internal server error")


\* A route without the rate_limit wrapper.
Receive_Unlimited(R, C, max) ==
    /\ pc = "idle"
    /\ requests < max
    /\ \E d \in R, c \in C :
         /\ data' = d
         /\ client' = c
    /\ requests' = requests + 1
    /\ pc' = "validate"
    /\ hist' = << >>
    /\ resp' = NoResp
    /\ config_file' = PyNone
    /\ pipeline_file' = PyNone
    /\ fluent_command' = << >>
    /\ proc' = << >>
    /\ UNCHANGED <<gw, now, rateVars, fsVars, st, sw>>

(***************************************************************************)
(* A request arrives: Flask hands it to a worker, which enters the route   *)
(* (the rate_limit wrapper first, in the secure gateway).                  *)
(***************************************************************************)
Receive(R, C, max) ==
    /\ pc = "idle"
    /\ requests < max
    /\ \E d \in R, c \in C :
         /\ data' = d
         /\ client' = c
    /\ requests' = requests + 1
    /\ pc' = IF gw = "secure" THEN "rate_limit" ELSE "validate"
    /\ hist' = << >>
    /\ resp' = NoResp
    /\ config_file' = PyNone
    /\ pipeline_file' = PyNone
    /\ fluent_command' = << >>
    /\ proc' = << >>
    /\ UNCHANGED <<gw, now, rateVars, fsVars, st, sw>>

\* A limiter that records the request before it compares the count.
RateLimit_RecordsRejected ==
    /\ pc = "rate_limit"
    /\ rate_limit_lock = client
    /\ rate_limit_lock' = "free"
    /\ LET current_time == now
           pruned == PruneWindow(request_counts[client], current_time)
       IN  /\ request_counts' =
                 [request_counts EXCEPT ![client] = Append(pruned, current_time)]
           /\ IF OverLimit(pruned)
              THEN /\ resp' = Error(429, "Rate limit exceeded. Try again later.")
                   /\ hist' = Append(hist, "rate_limited")
                   /\ pc' = "done"
                   /\ UNCHANGED recent
              ELSE /\ recent' = [recent EXCEPT ![client] = Append(@, current_time)]
                   /\ resp' = resp
                   /\ hist' = Append(hist, "admitted")
                   /\ pc' = "validate"
    /\ UNCHANGED <<gw, now, th, admitted, fsVars, requests, client, data, config_file,
                   pipeline_file, fluent_command, proc, st, sw>>

\* with rate_limit_lock: the request takes the lock when it is free.
LockAcquire ==
    /\ pc = "rate_limit"
    /\ rate_limit_lock = "free"
    /\ rate_limit_lock' = client
    /\ UNCHANGED <<gw, now, request_counts, recent, th, admitted, fsVars, requests, pc,
                   reqVars, st, sw>>

\* A limiter that calls the handler inside the with block: the admitted
\* request keeps the lock.
RateLimit_HoldsLock ==
    /\ pc = "rate_limit"
    /\ rate_limit_lock = client
    /\ rate_limit_lock' = IF OverLimit(PruneWindow(request_counts[client], now))
                          THEN "free" ELSE client
    /\ LET current_time == now
           pruned == PruneWindow(request_counts[client], current_time)
       IN  IF OverLimit(pruned)
           THEN /\ request_counts' = [request_counts EXCEPT ![client] = pruned]
                /\ resp' = Error(429, "Rate limit exceeded. Try again later.")
                /\ hist' = Append(hist, "rate_limited")
                /\ pc' = "done"
                /\ UNCHANGED recent
           ELSE /\ request_counts' =
                       [request_counts EXCEPT ![client] = Append(pruned, current_time)]
                /\ recent' = [recent EXCEPT ![client] = Append(@, current_time)]
                /\ resp' = resp
                /\ hist' = Append(hist, "admitted")
                /\ pc' = "validate"
    /\ UNCHANGED <<gw, now, th, admitted, fsVars, requests, client, data, config_file,
                   pipeline_file, fluent_command, proc, st, sw>>

(***************************************************************************)
(* rate_limit.decorated_function: under rate_limit_lock, prune the         *)
(* client's window, turn the request away at the ceiling, else record it.  *)
(***************************************************************************)
RateLimit ==
    /\ pc = "rate_limit"
    /\ rate_limit_lock = client
    /\ rate_limit_lock' = "free"
    /\ LET current_time == now
           pruned == PruneWindow(request_counts[client], current_time)
       IN  IF OverLimit(pruned)
           THEN /\ request_counts' = [request_counts EXCEPT ![client] = pruned]
                /\ resp' = Error(429, "Rate limit exceeded. Try again later.")
                /\ hist' = Append(hist, "rate_limited")
                /\ pc' = "done"
                /\ UNCHANGED recent
           ELSE /\ request_counts' =
                       [request_counts EXCEPT ![client] = Append(pruned, current_time)]
                /\ recent' = [recent EXCEPT ![client] = Append(@, current_time)]
                /\ resp' = resp
                /\ hist' = Append(hist, "admitted")
                /\ pc' = "validate"
    /\ UNCHANGED <<gw, now, th, admitted, fsVars, requests, client, data, config_file,
                   pipeline_file, fluent_command, proc, st, sw>>

\* The clock advances; admissions older than the window leave the record of
\* recent admissions.  The clock is read once per request, at the start of
\* rate_limit, so time is let pass between requests only.
Tick ==
    /\ pc = "idle"
    /\ now + TickStep <= MaxTicks * TickStep
    /\ now' = now + TickStep
    /\ recent' = [c \in Clients |->
                    SelectSeq(recent[c], LAMBDA t : now' - t < RateWindow)]
    /\ UNCHANGED <<gw, request_counts, rate_limit_lock, th, admitted, fsVars, requests,
                   pc, reqVars, st, sw>>

(***************************************************************************)
(* execute_fluent, first part: the validation made before staging, and    *)
(* the call create_temp_file(data.get('config'), '.json').                 *)
(***************************************************************************)
StCallAt(content, extension, caller, d, f) ==
    [pc |-> "check", content |-> content, extension |-> extension, path |-> << >>,
     caller |-> caller, disk0 |-> d, files0 |-> f, result |-> "none"]

Validate ==
    /\ pc = "validate"
    /\ LET r == IF gw = "secure"
                THEN ExceptResponse(validate_input(data))
                ELSE IF LegacyValidate(data) = "TypeError"
                THEN ExceptResponse(Raise("TypeError", "argument of type 'int' is not iterable"))
                ELSE Error(400, LegacyValidate(data))
           ok == IF gw = "secure" THEN validate_input(data) = NoExc
                 ELSE LegacyValidate(data) = "ok"
       IN  IF ok
           THEN /\ pc' = "stage_config"
                /\ st' = StCallAt(Get(data, "config"), ExtJson, "config", disk, temp_files)
                /\ hist' = Append(hist, "validated")
                /\ resp' = resp
           ELSE /\ pc' = "done"
                /\ st' = st
                /\ hist' = Append(hist, IF r.status = 400 THEN "rejected" ELSE "crashed")
                /\ resp' = r
    /\ UNCHANGED <<gw, now, rateVars, fsVars, requests, client, data, config_file,
                   pipeline_file, fluent_command, proc, sw>>

(***************************************************************************)
(* How a create_temp_file call ends: it returns to its caller (the config  *)
(* call is followed by the pipelineFile call, that one by the building),   *)
(* or its exception reaches the except clauses of execute_fluent.          *)
(***************************************************************************)
StageReturn(result, kind) ==
    CASE st.caller = "config" ->
           /\ config_file' = result
           /\ st' = StCallAt(Get(data, "pipelineFile"), ExtYaml, "pipeline", disk', temp_files')
           /\ pc' = "stage_pipeline"
           /\ hist' = Append(hist, "staged")
           /\ UNCHANGED <<pipeline_file, resp>>
      [] st.caller = "pipeline" ->
           /\ pipeline_file' = result
           /\ st' = StIdle
           /\ pc' = "build"
           /\ hist' = Append(hist, "staged")
           /\ UNCHANGED <<config_file, resp>>
      [] OTHER ->
           /\ st' = [st EXCEPT !.pc = "returned", !.result = kind]
           /\ pc' = "returned"
           /\ UNCHANGED <<config_file, pipeline_file, resp, hist>>

StageRaise(e) ==
    IF st.caller \in {"config", "pipeline"}
    THEN /\ resp' = ExceptResponse(e)
         /\ st' = StIdle
         /\ pc' = "done"
         /\ hist' = Append(hist, "stage_failed")
         /\ UNCHANGED <<config_file, pipeline_file>>
    ELSE /\ st' = [st EXCEPT !.pc = "returned", !.result = e.exc]
         /\ pc' = "returned"
         /\ UNCHANGED <<config_file, pipeline_file, resp, hist>>

stageFrame == <<gw, now, rateVars, requests, client, data, fluent_command, proc, sw>>

(***************************************************************************)
(* create_temp_file, step by step.                                         *)
(***************************************************************************)
\* The checks before the try block.
StageChecks ==
    /\ st.pc = "check"
    /\ UNCHANGED fsVars
    /\ LET r == StageCheck(gw, st.content, st.extension)
       IN  CASE r.act = "none" -> StageReturn(PyNone, "None")
             [] r.act = "raise" -> StageRaise(r.e)
             [] OTHER -> /\ st' = [st EXCEPT !.pc = "create"]
                         /\ UNCHANGED <<pc, config_file, pipeline_file, resp, hist>>
    /\ UNCHANGED stageFrame

\* tempfile.NamedTemporaryFile(delete=False, ...): the file comes to exist
\* under a new name, or the creation raises OSError.
StageCreate ==
    /\ st.pc = "create"
    /\ \/ /\ disk' = disk \cup {TempName(gw, created + 1, st.extension)}
          /\ created' = created + 1
          /\ st' = [st EXCEPT !.pc = "write",
                              !.path = TempName(gw, created + 1, st.extension)]
          /\ hist' = Append(hist, "created")
          /\ UNCHANGED <<temp_files, pc, config_file, pipeline_file, resp>>
       \/ /\ UNCHANGED fsVars
          /\ StageRaise(Raise("OSError", "NamedTemporaryFile"))
    /\ UNCHANGED stageFrame

\* A lone surrogate, which utf-8 cannot encode.
Surrogate == "surrogate"

\* temp.write(content) and the close at the end of the with block.  The
\* write raises TypeError for a content that is no str, UnicodeEncodeError
\* (a ValueError) for a text utf-8 cannot encode, and OSError when the
\* device fails.  The file, created with delete=False, stays.
WriteError(content) ==
    IF ~IsStr(content) THEN Raise("TypeError", "write")
    ELSE IF HasAny(content.s, {Surrogate}) THEN Raise("ValueError", "UnicodeEncodeError")
    ELSE NoExc

StageWrite ==
    /\ st.pc = "write"
    /\ UNCHANGED fsVars
    /\ \/ /\ WriteError(st.content) = NoExc
          /\ st' = [st EXCEPT !.pc = "append"]
          /\ UNCHANGED <<pc, config_file, pipeline_file, resp, hist>>
       \/ /\ WriteError(st.content) # NoExc
          /\ StageRaise(WriteError(st.content))
       \/ /\ WriteError(st.content) = NoExc
          /\ StageRaise(Raise("OSError", "write"))
    /\ UNCHANGED stageFrame

\* _temp_files.append(temp_path)
StageAppend ==
    /\ st.pc = "append"
    /\ temp_files' = Append(temp_files, st.path)
    /\ st' = [st EXCEPT !.pc = "chmod"]
    /\ hist' = Append(hist, "registered")
    /\ UNCHANGED <<disk, created, pc, config_file, pipeline_file, resp>>
    /\ UNCHANGED stageFrame

\* os.chmod(temp_path, 0o600) and the return, or the OSError of chmod.
StageChmod ==
    /\ st.pc = "chmod"
    /\ UNCHANGED fsVars
    /\ \/ StageReturn(Str(st.path), "path")
       \/ StageRaise(Raise("OSError", "chmod"))
    /\ UNCHANGED stageFrame


(***************************************************************************)
(* execute_fluent, second part: the command is built, scanned (legacy),    *)
(* and run.                                                                *)
(***************************************************************************)
\* A builder whose vector depends on what the registry holds.
Build_Stateful ==
    /\ pc = "build"
    /\ LET r == IF gw = "secure" THEN SecureBuild(data, config_file, pipeline_file)
                ELSE LegacyBuild(data, config_file, pipeline_file)
       IN  /\ fluent_command' = IF Len(temp_files) > 0
                                THEN r.cmd \o <<Flag(<<"-", "k">>)>>
                                ELSE r.cmd
           /\ IF r.e = NoExc
              THEN /\ pc' = IF gw = "secure" THEN "execute" ELSE "scan"
                   /\ hist' = Append(hist, "built")
                   /\ resp' = resp
              ELSE /\ pc' = "done"
                   /\ hist' = Append(hist, "build_failed")
                   /\ resp' = ExceptResponse(r.e)
    /\ UNCHANGED <<gw, now, rateVars, fsVars, requests, client, data, config_file,
                   pipeline_file, proc, st, sw>>

Build ==
    /\ pc = "build"
    /\ LET r == IF gw = "secure" THEN SecureBuild(data, config_file, pipeline_file)
                ELSE LegacyBuild(data, config_file, pipeline_file)
       IN  /\ fluent_command' = r.cmd
           /\ IF r.e = NoExc
              THEN /\ pc' = IF gw = "secure" THEN "execute" ELSE "scan"
                   /\ hist' = Append(hist, "built")
                   /\ resp' = resp
              ELSE /\ pc' = "done"
                   /\ hist' = Append(hist, "build_failed")
                   /\ resp' = ExceptResponse(r.e)
    /\ UNCHANGED <<gw, now, rateVars, fsVars, requests, client, data, config_file,
                   pipeline_file, proc, st, sw>>

\* The scan of the arguments and the length check of the legacy gateway.
Scan ==
    /\ pc = "scan"
    /\ LET r == LegacyScan(fluent_command)
       IN  CASE r = "ok" ->
                  /\ pc' = "execute"
                  /\ hist' = Append(hist, "scanned")
                  /\ resp' = resp
             [] r = "AttributeError" ->
                  /\ pc' = "done"
                  /\ hist' = Append(hist, "scan_failed")
                  /\ resp' = Error(500, "Internal server error")
             [] OTHER ->
                  /\ pc' = "done"
                  /\ hist' = Append(hist, "rejected")
                  /\ resp' = Error(400, r)
    /\ UNCHANGED <<gw, now, rateVars, fsVars, requests, client, data, config_file,
                   pipeline_file, fluent_command, proc, st, sw>>

\* The subprocess call is made: subprocess.run on the sanitized arguments
\* (secure), subprocess.check_output on the command (legacy).
Execute ==
    /\ pc = "execute"
    /\ proc' = IF gw = "secure" THEN sanitize_command_args(fluent_command)
               ELSE fluent_command
    /\ hist' = Append(hist, "spawn")
    /\ pc' = "wait"
    /\ UNCHANGED <<gw, now, rateVars, fsVars, requests, client, data, config_file,
                   pipeline_file, fluent_command, resp, st, sw>>

(***************************************************************************)
(* How the subprocess call ends, which the child and the system decide:    *)
(* the child exits with status 0 and n characters of output, exits with    *)
(* another status, outlives the timeout, cannot be started (OSError), or   *)
(* writes bytes that are no utf-8.                                         *)
(***************************************************************************)
OutputSizes == {0, 5, LegacyMaxOutput, LegacyMaxOutput + 1}

Outcomes ==
    [kind : {"exit0"}, out : OutputSizes]
    \cup [kind : {"nonzero", "timeout", "oserror", "undecodable"}, out : {0}]

\* execute_command_safely and the lines of execute_fluent after it.
SecureResponse(o) ==
    CASE o.kind = "exit0" -> Output(o.out)
      [] o.kind = "nonzero" -> Error(500, "Command execution failed")
      [] o.kind = "timeout" -> Error(500, "Command execution timed out")
      [] OTHER -> Error(500, "Internal server error")

\* check_output, decode, the size check and the except clauses of the legacy
\* execute_fluent (UnicodeDecodeError is a ValueError).
LegacyResponse(o) ==
    CASE o.kind = "exit0" ->
           IF o.out > LegacyMaxOutput THEN Error(413, "Output too large") ELSE Output(o.out)
      [] o.kind = "nonzero" -> Error(500, "CalledProcessError")
      [] o.kind = "undecodable" -> Error(400, "UnicodeDecodeError")
      [] OTHER -> Error(500, "Internal server error")

\* A wait without a timeout on a child that never exits: no step ends it.
ProcessEnds_NoTimeout ==
    /\ pc = "wait"
    /\ FALSE
    /\ UNCHANGED vars

ProcessEnds ==
    /\ pc = "wait"
    /\ \E o \in Outcomes :
         /\ resp' = IF gw = "secure" THEN SecureResponse(o) ELSE LegacyResponse(o)
         /\ hist' = Append(hist, o.kind)
    /\ pc' = "done"
    /\ UNCHANGED <<gw, now, rateVars, fsVars, requests, client, data, config_file,
                   pipeline_file, fluent_command, proc, st, sw>>

\* A finally clause that removes the files of the request.
Respond_Unlinks ==
    /\ pc = "done"
    /\ pc' = "idle"
    /\ data' = NullBody
    /\ client' = "none"
    /\ config_file' = PyNone
    /\ pipeline_file' = PyNone
    /\ fluent_command' = << >>
    /\ proc' = << >>
    /\ resp' = NoResp
    /\ hist' = << >>
    /\ disk' = disk \ {config_file.s, pipeline_file.s}
    /\ temp_files' = SelectSeq(temp_files,
                               LAMBDA f : f \notin {config_file.s, pipeline_file.s})
    /\ UNCHANGED <<gw, now, rateVars, created, requests, st, sw>>

\* The response is sent and the worker is free again.
Respond ==
    /\ pc = "done"
    /\ pc' = "idle"
    /\ data' = NullBody
    /\ client' = "none"
    /\ config_file' = PyNone
    /\ pipeline_file' = PyNone
    /\ fluent_command' = << >>
    /\ proc' = << >>
    /\ resp' = NoResp
    /\ hist' = << >>
    /\ UNCHANGED <<gw, now, rateVars, fsVars, requests, st, sw>>

(***************************************************************************)
(* cleanup_temp_files, run by the SIGTERM and SIGINT handlers and at exit: *)
(* the for loop over _temp_files, one file per step, then the clear.       *)
(***************************************************************************)
sweepFrame == <<gw, now, rateVars, created, requests, pc, reqVars, st>>

SweepStart ==
    /\ sw.pc = "idle"
    /\ sw' = [pc |-> "loop", idx |-> 1,
              tracked |-> {temp_files[i] : i \in 1..Len(temp_files)},
              unlinked |-> {}, failed |-> {},
              quiet |-> st.pc = "idle", created0 |-> created,
              again |-> sw.again /\ st.pc = "idle" /\ created = sw.created0]
    /\ UNCHANGED <<temp_files, disk>>
    /\ UNCHANGED sweepFrame

\* One turn of the loop: the file is unlinked if it exists; an exception of
\* os.unlink is logged and the loop goes on.
SweepFile ==
    /\ sw.pc = "loop"
    /\ sw.idx <= Len(temp_files)
    /\ LET temp_file == temp_files[sw.idx]
       IN  \/ /\ temp_file \in disk
              /\ disk' = disk \ {temp_file}
              /\ sw' = [sw EXCEPT !.idx = @ + 1, !.unlinked = @ \cup {temp_file}]
           \/ /\ temp_file \in disk
              /\ disk' = disk
              /\ sw' = [sw EXCEPT !.idx = @ + 1, !.failed = @ \cup {temp_file}]
           \/ /\ temp_file \notin disk
              /\ disk' = disk
              /\ sw' = [sw EXCEPT !.idx = @ + 1]
    /\ UNCHANGED temp_files
    /\ UNCHANGED sweepFrame

\* The loop has run off the end of the list.
SweepLoopEnd ==
    /\ sw.pc = "loop"
    /\ sw.idx > Len(temp_files)
    /\ sw' = [sw EXCEPT !.pc = "clear"]
    /\ UNCHANGED <<temp_files, disk>>
    /\ UNCHANGED sweepFrame

\* A sweep that leaves the registry as it is.
SweepClear_Keeps ==
    /\ sw.pc = "clear"
    /\ sw' = [sw EXCEPT !.pc = "done"]
    /\ UNCHANGED <<temp_files, disk>>
    /\ UNCHANGED sweepFrame

\* _temp_files.clear()
SweepClear ==
    /\ sw.pc = "clear"
    /\ temp_files' = << >>
    /\ sw' = [sw EXCEPT !.pc = "done"]
    /\ UNCHANGED disk
    /\ UNCHANGED sweepFrame

\* cleanup_temp_files returns.
SweepReturn ==
    /\ sw.pc = "done"
    /\ sw' = [SwIdle EXCEPT !.again = (st.pc = "idle"), !.created0 = created]
    /\ UNCHANGED <<temp_files, disk>>
    /\ UNCHANGED sweepFrame

\* Something outside the gateway (a cleaner of the temporary directory)
\* removes a staged file.
ExternalRemove ==
    /\ \E p \in disk : disk' = disk \ {p}
    /\ UNCHANGED <<gw, now, rateVars, temp_files, created, requests, pc, reqVars, st, sw>>


(***************************************************************************)
(* The requests the gateways are given.                                    *)
(***************************************************************************)
With(d, k, v) == [d EXCEPT !.f[k] = v]

Hi == Lit(<<"h", "i">>)
Base == With(With(Body(NoFields), "engine", Str(Lit(<<"o", "p", "e", "n", "a", "i">>))),
             "request", Str(Hi))

\* Payloads with no engine, or with one outside the allow-list.
BadEngineRequests ==
    {NullBody,
     NumberBody,
     Body(NoFields),
     With(Body(NoFields), "request", Str(Hi)),
     With(With(Body(NoFields), "request", Str(Hi)), "config", Str(Lit(<<"{", "}">>))),
     With(Base, "engine", Str(Lit(<<"i", "n", "v", "a", "l", "i", "d">>))),
     With(With(Base, "engine", Str(Lit(<<"O", "p", "e", "n", "a", "i">>))),
          "pipelineFile", Str(Lit(<<"a">>))),
     With(Base, "engine", PyNone),
     With(Base, "engine", PyInt(Lit(<<"5">>)))}

\* A string field carrying one character of the denylist.
InjectFields == {"request", "runId", "config"}
InjectChars == {";", "<", "'"}
InjectRequests ==
    {With(Base, k, Str(Cat(Lit(<<"a", "=">>), Rep(c, 1)))) : k \in InjectFields, c \in InjectChars}

\* Path-traversal markers.
TraversalRequests ==
    {With(Base, "input", Str(Lit(<<".", ".", "/", "x">>))),
     With(Base, "input", Str(Lit(<<"a", ".", ".">>))),
     With(Base, "input", Str(Lit(<<"/", "e", "t", "c">>)))}

\* Inline payloads to stage.
Json == Str(Lit(<<"{", "}">>))
Yaml == Str(Lit(<<"a", ":", " ", "b">>))
DataUrl == Str(Lit(<<"d", "a", "t", "a", ":", "x">>))
StageRequests ==
    {With(Base, "config", Json),
     With(With(Base, "pipelineFile", Yaml), "runId", Str(Lit(<<"r", "u", "n", "-", "4", "2">>))),
     With(With(Base, "pipelineFile", Yaml), "runId", Str(Rep("r", 101))),
     With(With(Base, "config", Json), "pipelineFile", Yaml),
     With(With(Base, "config", Json), "pipelineFile", DataUrl),
     With(With(Base, "config", Json), "pipelineFile", PyInt(Lit(<<"7">>))),
     With(Base, "config", Str(Lit(<<"{", Surrogate, "}">>))),
     With(Base, "config", PyList(Lit(<<"[", "1", "]">>), 1)),
     With(Base, "config", Str(Rep("a", LegacyMaxContent + 1)))}

\* Over-long texts and values that are no strings.
OtherRequests ==
    {Base,
     With(Base, "request", Str(Rep("a", LegacyMaxCommand + 1))),
     With(Base, "request", Str(Rep("a", 5001))),
     With(Base, "request", PyInt(Lit(<<"5">>))),
     With(Base, "override", PyList(Lit(<<"[", "'", "a", "'", "]">>), 1)),
     With(Base, "override", Str(Lit(<<"a", "=", "1", " ", "b", "=", "2">>))),
     With(Base, "override", Str(Rep("k", 100))),
     With(Base, "input", PyList(Lit(<<"[", "'", "a", ";", "b", "'", "]">>), 1)),
     With(With(Base, "upsert", PyTrue), "generateCypher", Str(Lit(<<"q">>)))}

Requests ==
    BadEngineRequests \cup InjectRequests \cup TraversalRequests \cup StageRequests
    \cup OtherRequests

(***************************************************************************)
(* The gateway process: after start-up nothing is staged and no request is *)
(* in flight.  A client may have been admitted just below the ceiling      *)
(* already (requests the validation turned away leave nothing else).       *)
(***************************************************************************)
RECURSIVE Times(_, _)
Times(t, n) == IF n = 0 THEN << >> ELSE Append(Times(t, n - 1), t)

InitCommon ==
    /\ now = 0
    /\ th = [t \in Threads |-> ThIdle]
    /\ rate_limit_lock = "free"
    /\ temp_files = << >>
    /\ disk = {}
    /\ created = 0
    /\ requests = 0
    /\ pc = "idle"
    /\ client = "none"
    /\ data = NullBody
    /\ config_file = PyNone
    /\ pipeline_file = PyNone
    /\ fluent_command = << >>
    /\ proc = << >>
    /\ resp = NoResp
    /\ hist = << >>
    /\ st = StIdle
    /\ sw = SwIdle

Init ==
    /\ InitCommon
    /\ \/ /\ gw = "legacy"
          /\ request_counts = [c \in Clients |-> << >>]
       \/ /\ gw = "secure"
          /\ \E n \in {0, MAX_REQUESTS_PER_MINUTE - 1} :
               request_counts = [c \in Clients |-> IF c = "c1" THEN Times(0, n) ELSE << >>]
    /\ recent = request_counts
    /\ admitted = request_counts

\* A step of the worker that handles the request in flight.
Handle ==
    \/ LockAcquire
    \/ RateLimit
    \/ Validate
    \/ StageChecks
    \/ StageCreate
    \/ StageWrite
    \/ StageAppend
    \/ StageChmod
    \/ Build
    \/ Scan
    \/ Execute
    \/ ProcessEnds
    \/ Respond

\* A step of cleanup_temp_files.
Sweep ==
    \/ SweepStart
    \/ SweepFile
    \/ SweepLoopEnd
    \/ SweepClear
    \/ SweepReturn

\* The gateway serving requests one after the other, all within one reading
\* of the clock; a signal may start the sweep at any point of a request, and
\* the sweep then runs to its end.
Next ==
    \/ sw.pc = "idle" /\ Receive(Requests, {"c1"}, MaxRequests)
    \/ sw.pc = "idle" /\ Handle
    \/ Sweep

Spec == Init /\ [][Next]_vars

\* The same gateway with its scheduling: the thread of the request in flight
\* keeps running (the timeout of the subprocess call ends the wait for a child
\* that never exits), and a sweep that was started runs to its end.
LiveRequests ==
    {NumberBody,
     With(Base, "engine", Str(Lit(<<"i", "n", "v", "a", "l", "i", "d">>))),
     Base,
     With(Base, "config", Json),
     With(Base, "config", Str(Lit(<<"{", Surrogate, "}">>))),
     With(Base, "override", PyList(Lit(<<"[", "'", "a", "'", "]">>), 1))}

NextLive ==
    \/ sw.pc = "idle" /\ Receive(LiveRequests, {"c1"}, MaxRequests)
    \/ sw.pc = "idle" /\ Handle
    \/ Sweep

SpecLive == Init /\ [][NextLive]_vars /\ WF_vars(Handle) /\ WF_vars(Sweep)

(***************************************************************************)
(* The rate limiter on its own: the secure gateway given requests its      *)
(* validation turns away at once, by two clients, while time passes.  One  *)
(* client starts with an empty window or two admissions below the ceiling. *)
(***************************************************************************)
MaxRateRequests == 5

InitRate ==
    /\ InitCommon
    /\ gw = "secure"
    /\ \E n \in {0, MAX_REQUESTS_PER_MINUTE - 2} :
         request_counts = [c \in Clients |-> IF c = "c1" THEN Times(0, n) ELSE << >>]
    /\ recent = request_counts
    /\ admitted = request_counts

NextRate ==
    \/ Receive({NullBody}, Clients, MaxRateRequests)
    \/ LockAcquire
    \/ RateLimit
    \/ Validate
    \/ Respond
    \/ Tick

SpecRate == InitRate /\ [][NextRate]_vars

(***************************************************************************)
(* The rate limiter under concurrent requests: the request threads of the  *)
(* secure gateway (app.run(threaded=True)) run decorated_function at the   *)
(* same time, for either client, while time passes.  A thread reads the    *)
(* clock (line 60) before it takes rate_limit_lock (line 62), so the step  *)
(* of another thread, or a tick, may come between the two.  The handler a  *)
(* thread calls after its admission is left out.                           *)
(***************************************************************************)
MaxConcRequests == 4

concFrame == <<gw, fsVars, pc, reqVars, st, sw>>

\* client_ip = ..., current_time = time.time()
ConcArrive(t) ==
    /\ th[t].pc = "idle"
    /\ requests < MaxConcRequests
    /\ requests' = requests + 1
    /\ \E c \in Clients :
         th' = [th EXCEPT ![t] = [pc |-> "lock", client |-> c, current_time |-> now]]
    /\ UNCHANGED <<now, request_counts, recent, rate_limit_lock, admitted>>
    /\ UNCHANGED concFrame

\* with rate_limit_lock:
ConcAcquire(t) ==
    /\ th[t].pc = "lock"
    /\ rate_limit_lock = "free"
    /\ rate_limit_lock' = t
    /\ th' = [th EXCEPT ![t].pc = "check"]
    /\ UNCHANGED <<now, request_counts, recent, admitted, requests>>
    /\ UNCHANGED concFrame

\* The body of the with block, and the release of the lock at its end.
ConcCheck(t) ==
    /\ th[t].pc = "check"
    /\ rate_limit_lock = t
    /\ rate_limit_lock' = "free"
    /\ LET client_ip == th[t].client
           current_time == th[t].current_time
           pruned == PruneWindow(request_counts[client_ip], current_time)
       IN  IF OverLimit(pruned)
           THEN /\ request_counts' = [request_counts EXCEPT ![client_ip] = pruned]
                /\ th' = [th EXCEPT ![t].pc = "rejected"]
                /\ UNCHANGED admitted
           ELSE /\ request_counts' =
                       [request_counts EXCEPT ![client_ip] = Append(pruned, current_time)]
                /\ admitted' = [admitted EXCEPT ![client_ip] = Append(@, current_time)]
                /\ th' = [th EXCEPT ![t].pc = "handler"]
    /\ UNCHANGED <<now, recent, requests>>
    /\ UNCHANGED concFrame

\* The 429 is returned, or the handler called at line 76 returns.
ConcReturn(t) ==
    /\ th[t].pc \in {"rejected", "handler"}
    /\ th' = [th EXCEPT ![t] = ThIdle]
    /\ UNCHANGED <<now, request_counts, recent, rate_limit_lock, admitted, requests>>
    /\ UNCHANGED concFrame

InitConc ==
    /\ InitCommon
    /\ gw = "secure"
    /\ \E n \in {0, MAX_REQUESTS_PER_MINUTE - 2} :
         request_counts = [c \in Clients |-> IF c = "c1" THEN Times(0, n) ELSE << >>]
    /\ recent = request_counts
    /\ admitted = request_counts

NextConc ==
    \/ \E t \in Threads : ConcArrive(t)
    \/ \E t \in Threads : ConcAcquire(t)
    \/ \E t \in Threads : ConcCheck(t)
    \/ \E t \in Threads : ConcReturn(t)
    \/ Tick

SpecConc == InitConc /\ [][NextConc]_vars

(***************************************************************************)
(* The Staged-File Manager on its own: create_temp_file called with any    *)
(* text and extension, cleanup_temp_files, and a cleaner that removes      *)
(* files from the temporary directory; one call at a time.                 *)
(***************************************************************************)
StageContents ==
    {PyNone, Str(<< >>), Json, DataUrl,
     Str(Lit(<<"<", "S", "c", "r", "i", "p", "t", ">">>)),
     Str(Lit(<<"{", Surrogate, "}">>)),
     Str(Rep("a", MAX_REQUEST_SIZE)),
     Str(Rep("a", MAX_REQUEST_SIZE + 1))}

StageExtensions ==
    ALLOWED_EXTENSIONS \cup {Lit(<<".", "e", "x", "e">>)}

Call ==
    /\ pc = "idle"
    /\ st.pc = "idle"
    /\ created < MaxFiles
    /\ \E content \in StageContents, extension \in StageExtensions :
         st' = StCallAt(content, extension, "direct", disk, temp_files)
    /\ pc' = "call"
    /\ UNCHANGED <<gw, now, rateVars, fsVars, requests, reqVars, sw>>

Return ==
    /\ pc = "returned"
    /\ pc' = "idle"
    /\ st' = StIdle
    /\ hist' = << >>
    /\ UNCHANGED <<gw, now, rateVars, fsVars, requests, client, data, config_file,
                   pipeline_file, fluent_command, proc, resp, sw>>

InitStage ==
    /\ InitCommon
    /\ gw \in {"legacy", "secure"}
    /\ request_counts = [c \in Clients |-> << >>]
    /\ recent = request_counts
    /\ admitted = request_counts

NextStage ==
    \/ sw.pc = "idle" /\ Call
    \/ sw.pc = "idle" /\ StageChecks
    \/ sw.pc = "idle" /\ StageCreate
    \/ sw.pc = "idle" /\ StageWrite
    \/ sw.pc = "idle" /\ StageAppend
    \/ sw.pc = "idle" /\ StageChmod
    \/ sw.pc = "idle" /\ Return
    \/ st.pc = "idle" /\ Sweep
    \/ st.pc = "idle" /\ sw.pc = "idle" /\ ExternalRemove

SpecStage == InitStage /\ [][NextStage]_vars

(***************************************************************************)
(* create_temp_file called by a request thread (app.run(threaded=True))    *)
(* while cleanup_temp_files runs in the main thread, on a signal: the      *)
(* steps of the two interleave freely, _temp_files having no lock.         *)
(***************************************************************************)
NextRace ==
    \/ Call
    \/ StageChecks
    \/ StageCreate
    \/ StageWrite
    \/ StageAppend
    \/ StageChmod
    \/ Return
    \/ Sweep

SpecRace == InitStage /\ [][NextRace]_vars


(***************************************************************************)
(* The claims.                                                             *)
(***************************************************************************)
Has(h, e) == \E i \in 1..Len(h) : h[i] = e
Count(h, e) == Cardinality({i \in 1..Len(h) : h[i] = e})
Registry == {temp_files[i] : i \in 1..Len(temp_files)}

\* The handling has staged a file, registered a path or made the
\* subprocess call.
SideEffect ==
    \/ Has(hist, "created") \/ Has(hist, "registered") \/ Has(hist, "spawn")
    \/ proc # << >>

\* The request has no engine, or one outside the allow-list.
BadEngine(d) ==
    \/ "engine" \notin Keys(d)
    \/ ~IsStr(d.f["engine"])
    \/ d.f["engine"].s \notin ALLOWED_ENGINES

\* C1: a request whose engine is missing or outside the allow-list
\* is answered with status 400, by either gateway, and its handling stages no
\* file, registers no path and starts no process.
C1_BadEngine400 ==
    (pc = "done" /\ BadEngine(data)) => (resp.status = 400 /\ ~SideEffect)

\* C2: a request that ends in a validation rejection has staged no file,
\* registered no path and started no process.
C2_ValidationBeforeEffects ==
    (pc = "done" /\ Len(hist) > 0 /\ hist[Len(hist)] = "rejected") => ~SideEffect

\* The characters of the denylist of the specification.
Denylist ==
    {";", "&", "|", Backquote, "$", "(", ")", "<", ">", "\"", "'", "\\", "\n", "\r"}

CarriesDenylisted(d) ==
    \E k \in Keys(d) : IsStr(d.f[k]) /\ HasAny(d.f[k].s, Denylist)

\* C3: a request that carries a denylisted character in a string field is
\* never executed.
C3_DenylistedNeverRuns ==
    (pc # "idle" /\ CarriesDenylisted(data)) => ~Has(hist, "spawn")

\* The request passed admission, validation and staging (in the legacy gateway
\* the validation ends with the scan of the arguments).
PassedStaging ==
    /\ Has(hist, "validated")
    /\ Count(hist, "staged") = 2
    /\ gw = "legacy" => Has(hist, "scanned")

\* C6: when the handling of a request is over, one process was started if the
\* request passed admission, validation and staging, and none otherwise.
C6_OneProcessPerAccepted ==
    pc = "done" => Count(hist, "spawn") = (IF PassedStaging THEN 1 ELSE 0)


\* The timestamps of w younger than 60 seconds at time t.
Young(w, t) == SelectSeq(w, LAMBDA x : t - x < 60)

\* C4: a client is turned away (status 429, the handler not run) exactly when
\* 30 admissions of that client lie within the last 60 seconds; no client has
\* more than 30 admissions within 60 seconds, and a request that finds fewer,
\* the earlier ones being 60 seconds old or older, is admitted.
C4_RateCeiling ==
    /\ \A c \in Clients : Len(recent[c]) <= 30
    /\ pc \notin {"idle", "rate_limit"} =>
         /\ Len(hist) > 0
         /\ IF hist[1] = "rate_limited"
            THEN /\ Len(recent[client]) >= 30
                 /\ hist = <<"rate_limited">>
                 /\ pc = "done"
                 /\ resp.status = 429
            ELSE /\ hist[1] = "admitted"
                 /\ Len(recent[client]) > 0
                 /\ recent[client][Len(recent[client])] = now
                 /\ resp.status # 429

C4_Witness ==
    /\ pc = "done"
    /\ resp.status = 429
    /\ Len(recent[client]) = 30

\* C5: the step of rate_limit leaves in the client's window exactly the
\* entries younger than 60 seconds when it turns the request away, and these
\* followed by the current time when it admits; no other window changes.
C5_RejectRecordsNothing ==
    [][pc = "rate_limit" /\ pc' # "rate_limit" =>
         /\ request_counts'[client] =
              IF pc' = "done" THEN Young(request_counts[client], now)
              ELSE Append(Young(request_counts[client], now), now)
         /\ \A c \in Clients \ {client} : request_counts'[c] = request_counts[c]
         /\ pc' = "done" <=> Len(Young(request_counts[client], now)) >= 30]_vars

C5_Witness ==
    /\ pc = "done"
    /\ resp.status = 429
    /\ now > 0
    /\ request_counts[client] = Young(request_counts[client], now)
    /\ Len(request_counts[client]) = 30

\* The stage an event of the handling belongs to.
StageOf(e) ==
    CASE e \in {"admitted", "rate_limited"} -> 1
      [] e \in {"validated", "rejected", "crashed"} -> 2
      [] e \in {"created", "registered", "staged", "stage_failed"} -> 3
      [] e \in {"built", "build_failed"} -> 4
      [] e = "spawn" -> 5
      [] OTHER -> 6

\* The events that end the handling before the execution.
Stops == {"rate_limited", "rejected", "crashed", "stage_failed", "build_failed"}

\* C7: in the secure gateway the events of a request come in the order
\* admission, validation, staging, building, execution; a process is started
\* only after the admission, the validation, both stage calls and the building;
\* a request that is rate-limited, or fails validation or staging, goes no
\* further and is answered with an error.
C7_StageOrder ==
    gw = "secure" =>
        /\ \A i \in 1..Len(hist) : \A j \in 1..Len(hist) :
             i < j => /\ StageOf(hist[i]) <= StageOf(hist[j])
                      /\ hist[i] \notin Stops
        /\ (Has(hist, "spawn") \/ proc # << >> \/ pc \in {"execute", "wait"}) =>
             /\ Len(hist) >= 5
             /\ hist[1] = "admitted"
             /\ hist[2] = "validated"
             /\ Count(hist, "staged") = 2
             /\ Has(hist, "built")
        /\ Has(hist, "rate_limited") => hist = <<"rate_limited">> /\ st.pc = "idle"
        /\ (Len(hist) > 0 /\ hist[Len(hist)] \in Stops) =>
             /\ pc = "done"
             /\ resp.status >= 400
             /\ proc = << >>
        /\ (pc \notin {"idle", "rate_limit"}) => Len(hist) > 0
        /\ st.pc # "idle" => (Has(hist, "validated") /\ ~Has(hist, "built"))

C7_Witness ==
    /\ gw = "secure"
    /\ pc = "done"
    /\ resp.status = 200
    /\ Has(hist, "spawn")
    /\ Has(hist, "registered")

\* C8: when no stage call and no sweep is running, every file the manager
\* created that is still on disk is in the registry.
C8_StagedRegistered ==
    (st.pc = "idle" /\ sw.pc = "idle") => disk \subseteq Registry

\* cleanup_temp_files has returned, and no stage call ran while it did.
SweepDone ==
    /\ sw.pc = "done"
    /\ sw.quiet
    /\ st.pc = "idle"
    /\ created = sw.created0

\* C9, as stated: after the sweep none of the paths tracked at its start is
\* on disk and the registry is empty.
C9_SweepRemovesTracked ==
    SweepDone => (sw.tracked \cap disk = {} /\ temp_files = << >>)

\* C9, amended: after the sweep none of the paths tracked at its start is on
\* disk, except those whose unlink raised; the registry is empty; a tracked
\* path already missing is passed over; a second sweep with no stage call in
\* between finds nothing to do.
C9_SweepRemovesUnlinkable ==
    SweepDone =>
        /\ (sw.tracked \ sw.failed) \cap disk = {}
        /\ temp_files = << >>
        /\ sw.unlinked \cup sw.failed \subseteq sw.tracked
        /\ sw.unlinked \cap sw.failed = {}
        /\ sw.again => (sw.tracked = {} /\ sw.unlinked = {} /\ sw.failed = {})

C9_Witness ==
    /\ SweepDone
    /\ sw.unlinked # {}
    /\ sw.tracked \ (sw.unlinked \cup sw.failed) # {}
    /\ sw.failed = {}

\* C10: a create_temp_file call that has returned, by its content and
\* extension: nothing done and None for an absent or empty content; an error
\* and nothing done for an extension outside the allow-list or a content over
\* the size bound; otherwise one new file, its path added to the registry and
\* returned.
C10_StageContract ==
    st.pc = "returned" =>
        IF ~Truthy(st.content)
        THEN /\ st.result = "None"
             /\ disk = st.disk0
             /\ temp_files = st.files0
        ELSE IF st.extension \notin ALLOWED_EXTENSIONS \/ PyLen(st.content) > 10485760
        THEN /\ st.result \notin {"None", "path"}
             /\ disk = st.disk0
             /\ temp_files = st.files0
        ELSE /\ st.result = "path"
             /\ st.path \notin st.disk0
             /\ disk = st.disk0 \cup {st.path}
             /\ temp_files = Append(st.files0, st.path)


\* The -o pairs of the reference sequence: one pair per override token.
RECURSIVE ReferenceOverrides(_)
ReferenceOverrides(tokens) ==
    IF Len(tokens) = 0 THEN << >>
    ELSE <<Flag(<<"-", "o">>), Str(tokens[1])>> \o ReferenceOverrides(Tail(tokens))

\* A flag followed by the value of its field, when the field is present.
ReferencePair(d, k, flag) == Opt(Truthy(Get(d, k)), <<Flag(flag), Get(d, k)>>)

\* A flag alone, when its field is true.
ReferenceSwitch(d, k, flag) == Opt(Truthy(Get(d, k)), <<Flag(flag)>>)

\* The reference sequence of the command vector for the request d and the
\* staged paths c (config) and p (pipeline file).
Reference(d, c, p) ==
    <<Flag(<<"f", "l", "u", "e", "n", "t">>), d.f["engine"]>>
    \o Opt(Truthy(Get(d, "request")), <<Get(d, "request")>>)
    \o Opt(Truthy(c), <<Flag(<<"-", "c">>), c>>)
    \o ReferenceOverrides(Split(GetOverride(d).s))
    \o ReferencePair(d, "additionalContextFile", <<"-", "a">>)
    \o ReferenceSwitch(d, "upsert", <<"-", "-", "u", "p", "s", "e", "r", "t">>)
    \o ReferencePair(d, "input", <<"-", "i">>)
    \o ReferencePair(d, "metadata", <<"-", "t">>)
    \o ReferencePair(d, "uploadImageFile", <<"-", "l">>)
    \o ReferencePair(d, "downloadMedia", <<"-", "d">>)
    \o ReferenceSwitch(d, "parseCode", <<"-", "p">>)
    \o ReferenceSwitch(d, "executeOutput", <<"-", "x">>)
    \o ReferenceSwitch(d, "markdown", <<"-", "m">>)
    \o ReferencePair(d, "generateCypher",
                     <<"-", "-", "g", "e", "n", "e", "r", "a", "t", "e", "-",
                       "c", "y", "p", "h", "e", "r">>)
    \o Opt(Truthy(p),
           <<Flag(<<"p", "i", "p", "e", "l", "i", "n", "e">>),
             Flag(<<"-", "-", "f", "i", "l", "e">>), p>>
           \o ReferencePair(d, "pipelineInput", <<"-", "-", "i", "n", "p", "u", "t">>)
           \o ReferenceSwitch(d, "jsonOutput",
                              <<"-", "-", "j", "s", "o", "n", "-", "o", "u", "t", "p", "u", "t">>)
           \o ReferencePair(d, "runId", <<"-", "-", "r", "u", "n", "-", "i", "d">>)
           \o ReferenceSwitch(d, "forceFresh",
                              <<"-", "-", "f", "o", "r", "c", "e", "-", "f", "r", "e", "s", "h">>))

\* The arguments of a command as texts.
Texts(cmd) == [i \in 1..Len(cmd) |-> cmd[i].s]

\* C11: the command vector a gateway has built for a validated request is,
\* text for text, the reference sequence for that request and its staged
\* paths.
C11_BuiltIsReference ==
    Has(hist, "built") =>
        Texts(fluent_command) = Texts(Reference(data, config_file, pipeline_file))


RunIdScenario ==
    /\ gw = "secure"
    /\ ~BadEngine(data)
    /\ Truthy(Get(data, "pipelineFile"))
    /\ Truthy(Get(data, "runId"))
    /\ ~Truthy(Get(data, "pipelineInput"))
    /\ ~Truthy(Get(data, "jsonOutput"))
    /\ ~Truthy(Get(data, "forceFresh"))

\* The sequence xs ends with the sequence ys.
EndsWith(xs, ys) ==
    /\ Len(xs) >= Len(ys)
    /\ SubSeq(xs, Len(xs) - Len(ys) + 1, Len(xs)) = ys

PipelineText == Lit(<<"p", "i", "p", "e", "l", "i", "n", "e">>)
FileText == Lit(<<"-", "-", "f", "i", "l", "e">>)
RunIdText == Lit(<<"-", "-", "r", "u", "n", "-", "i", "d">>)

\* C13: a request of the scenario that reaches the executor has a vector
\* ending with pipeline --file <staged-path> --run-id <runId>, the path being
\* the one staged and registered for the request.
C13_RunIdVector ==
    (RunIdScenario /\ Has(hist, "spawn")) =>
        /\ Has(hist, "registered")
        /\ IsStr(pipeline_file)
        /\ EndsWith(Texts(fluent_command),
                    <<PipelineText, FileText, pipeline_file.s, RunIdText,
                      Get(data, "runId").s>>)


\* The response the gateway in use gives to the outcome o of the child.
ResponseTo(o) == IF gw = "secure" THEN SecureResponse(o) ELSE LegacyResponse(o)

\* The last event of the handling.
LastEvent == IF Len(hist) = 0 THEN "none" ELSE hist[Len(hist)]

\* C14: a timeout of the child is answered with a status no other failure
\* kind is answered with (validation failure, rate limit, non-zero exit,
\* internal error), and the response names the timeout.
C14_TimeoutDistinct ==
    (pc = "done" /\ LastEvent = "timeout") =>
        /\ resp.status >= 400
        /\ resp.status \notin {400, 429}
        /\ resp.status # ResponseTo([kind |-> "nonzero", out |-> 0]).status
        /\ resp.status # ResponseTo([kind |-> "oserror", out |-> 0]).status
        /\ resp.status # ExceptResponse(Raise("AttributeError", "split")).status
        /\ resp.error = "Command execution timed out"


\* C15: no success response carries an output longer than 1,000,000
\* characters.
C15_OutputBounded ==
    (pc = "done" /\ resp.status = 200) => resp.output <= 1000000


\* C16: the argument list given to the subprocess call is, element for
\* element, the vector the builder constructed.
C16_VectorVerbatim ==
    Has(hist, "spawn") => proc = fluent_command


\* The override tokens of the request d.
OverrideTokens(d) == IF IsStr(Get(d, "override")) THEN Split(Get(d, "override").s) ELSE << >>

\* The request d exceeds a cap: a request text over 5000 characters, an
\* override token over 100 characters, or more than 10 override tokens.
OverCap(d) ==
    \/ IsStr(Get(d, "request")) /\ StrLen(Get(d, "request").s) > 5000
    \/ Len(OverrideTokens(d)) > 10
    \/ \E i \in 1..Len(OverrideTokens(d)) : StrLen(OverrideTokens(d)[i]) > 100

\* The vector cmd holds the pair -o, token.
HasOverridePair(cmd, token) ==
    \E i \in 1..(Len(cmd) - 1) :
        cmd[i].s = Lit(<<"-", "o">>) /\ cmd[i + 1].s = token

\* C17: a request over a cap is answered with a validation failure (or
\* turned away by the rate limiter) and starts no process; an override token
\* of exactly 100 characters is emitted as a -o pair of the vector built.
C17_CapsFailFast ==
    /\ (pc # "idle" /\ OverCap(data)) => ~Has(hist, "spawn")
    /\ (pc = "done" /\ OverCap(data)) => resp.status \in {400, 429}
    /\ Has(hist, "built") =>
         \A i \in 1..Len(OverrideTokens(data)) :
             StrLen(OverrideTokens(data)[i]) = 100 =>
                 HasOverridePair(fluent_command, OverrideTokens(data)[i])


C19_NoRegistrationLost ==
    (/\ pc = "returned"
     /\ st.result = "path"
     /\ sw.pc = "done"
     /\ st.path \notin sw.failed)
        => (st.path \in disk => st.path \in Registry)

\* C20: no request holds rate_limit_lock while its external process runs:
\* from the subprocess call to its end the lock is free, so the admission
\* check of another request is not blocked by the command.
C20_NoLockAcrossWait ==
    (pc \in {"execute", "wait"}) => rate_limit_lock = "free"

\* The secure gateway waits for the child of a request that took the lock and
\* was admitted.
C20_Witness ==
    /\ gw = "secure"
    /\ pc = "wait"
    /\ Has(hist, "admitted")
    /\ rate_limit_lock # client

\* The admissions of client c recorded with a time in the 60 seconds that
\* start at time t.
AdmittedIn(c, t) ==
    {i \in 1..Len(admitted[c]) : t <= admitted[c][i] /\ admitted[c][i] - t < RateWindow}

\* C21: under any interleaving of concurrent requests the window stored for a
\* client holds at most 30 timestamps, and no client has more than 30
\* admissions whose times lie within one interval of 60 seconds.
C21_ConcurrentCeiling ==
    \A c \in Clients :
        /\ Len(request_counts[c]) <= MAX_REQUESTS_PER_MINUTE
        /\ \A i \in 1..Len(admitted[c]) :
               Cardinality(AdmittedIn(c, admitted[c][i])) <= MAX_REQUESTS_PER_MINUTE

\* The secure gateway has answered a request that was admitted and then
\* turned away by the validation, and the window of its client is full.
FullAfterRejection ==
    /\ gw = "secure"
    /\ pc = "done"
    /\ hist = <<"admitted", "rejected">>
    /\ resp.status = 400
    /\ Len(request_counts[client]) = MAX_REQUESTS_PER_MINUTE
    /\ Young(request_counts[client], now) = request_counts[client]

\* The request is answered 429 and no process was started for it.
TurnedAwayUnrun ==
    /\ resp.status = 429
    /\ hist = <<"rate_limited">>
    /\ proc = << >>

\* C22: admission is recorded before validation: a request the validation
\* turns away is in the window of its client, and once such requests have
\* filled the window every later request of the client within the 60 seconds,
\* valid or not, is answered 429 and starts no process.
C22_RejectedCount ==
    /\ []((gw = "secure" /\ (Has(hist, "rejected") \/ Has(hist, "validated")))
            => /\ hist[1] = "admitted"
               /\ Len(request_counts[client]) > 0
               /\ request_counts[client][Len(request_counts[client])] = now)
    /\ \A k \in 1..MaxRequests :
          []((FullAfterRejection /\ requests = k)
                => []((pc = "done" /\ requests > k) => TurnedAwayUnrun))

\* A valid request is turned away by the full window, the request before it
\* having been received with 29 entries in the window.
C22_Witness ==
    /\ gw = "secure"
    /\ pc = "done"
    /\ requests = 2
    /\ validate_input(data) = NoExc
    /\ TurnedAwayUnrun
    /\ Len(request_counts[client]) = MAX_REQUESTS_PER_MINUTE

\* C23: in the secure gateway no argument handed to the subprocess call holds
\* one of the characters ; & | ` $ ( ) and every argument is at most 1000
\* characters long, also for requests whose field values are not strings.
C23_ArgsSanitized ==
    (gw = "secure" /\ Has(hist, "spawn")) =>
        \A i \in 1..Len(proc) :
            /\ ~HasAny(proc[i].s, ShellMeta)
            /\ StrLen(proc[i].s) <= 1000

\* The process of a request with a field that is no string, whose text holds
\* one of the characters, has been started: the vector built holds the
\* character.
C23_Witness ==
    /\ gw = "secure"
    /\ Has(hist, "spawn")
    /\ \E k \in Keys(data) : ~IsStr(data.f[k]) /\ HasAny(data.f[k].s, ShellMeta)
    /\ \E i \in 1..Len(fluent_command) : HasAny(fluent_command[i].s, ShellMeta)
    /\ Len(proc) = Len(fluent_command)

\* v is the path of a file staged since the last sweep started.
StagedSinceSweep(v) ==
    /\ IsStr(v)
    /\ \E n \in (sw.created0 + 1)..created, extension \in {ExtJson, ExtYaml} :
          v.s = TempName(gw, n, extension)

\* C24: only the sweep removes staged files: a step of the handling of a
\* request, its response included, removes no entry from the registry and
\* unlinks no file, so between sweeps the registry only grows; the files a
\* request staged are on disk and registered until the next sweep.
C24_OnlySweepRemoves ==
    /\ [][(sw.pc = "idle" /\ sw'.pc = "idle")
            => /\ Len(temp_files) <= Len(temp_files')
               /\ SubSeq(temp_files', 1, Len(temp_files)) = temp_files
               /\ disk \subseteq disk']_vars
    /\ [](sw.pc = "idle"
            => \A v \in {config_file, pipeline_file} :
                  StagedSinceSweep(v) => v.s \in disk /\ v.s \in Registry)

\* A request whose child timed out has been answered, with its two staged
\* files on disk and registered.
C24_Witness ==
    /\ pc = "done"
    /\ LastEvent = "timeout"
    /\ sw.pc = "idle"
    /\ StagedSinceSweep(config_file)
    /\ StagedSinceSweep(pipeline_file)
    /\ {config_file.s, pipeline_file.s} \subseteq (disk \cap Registry)

\* The request names an allow-listed engine and carries a non-empty config or
\* pipelineFile payload.
CarriesPayload(d) ==
    /\ d.json = "object"
    /\ ~BadEngine(d)
    /\ Truthy(Get(d, "config")) \/ Truthy(Get(d, "pipelineFile"))

====
